---- MODULE Spec2Model ----
(***************************************************************************)
(* Model of the two marshalling wrappers of SpellcheckJS:                  *)
(*   Spellchecker        (src/spellchecker.js)                             *)
(*   WordBoundaryFinder  (src/WordBoundaryFinder.js)                       *)
(* Each wrapper method is one action.  A JavaScript string is a sequence   *)
(* of character codes, a C string a sequence of bytes ended by a 0 byte.   *)
(* The compiled functions (Module._xxx) are not part of the two source     *)
(* files; their behaviour on a loaded dictionary / break iterator follows  *)
(* the specification, and a call on a missing one is a choice over the     *)
(* outcomes such a call can have.                                          *)
(***************************************************************************)
EXTENDS Integers, Sequences, FiniteSets, TLC

VARIABLES
    runtime,        \* "running", or "aborted" once a compiled call aborted
    icuData,        \* "none" | "pending" | "loaded": /icudt54l.dat in the file system
    dataDirSet,     \* Module._setDataDirectory() has been called
    breakIterator,  \* <<>>, or <<language, region>> of the active ICU BreakIterator
    hunspell,       \* <<>>, or <<aff, dic>>: the files the Hunspell object was built from
    stackTop,       \* Emscripten stack pointer, in allocations above the base
    liveBuffers,    \* result buffers of compiled calls not yet released
    last            \* the last wrapper call: what it was given and what it returned

vars == <<runtime, icuData, dataDirSet, breakIterator, hunspell, stackTop, liveBuffers, last>>

(***************************************************************************)
(* Bounds of the model.                                                    *)
(***************************************************************************)
MaxWordLen == 2
MaxTextLen == 3

\* The count of results is read back through one unsigned byte (HEAPU8).
ByteMod == 256

(***************************************************************************)
(* Generic helpers on sequences.                                           *)
(***************************************************************************)
SeqsUpTo(S, n) == UNION {[1..k -> S] : k \in 0..n}

RECURSIVE Flatten(_)
Flatten(ss) ==
    IF Len(ss) = 0 THEN <<>>
    ELSE IF Len(ss) = 1 THEN ss[1]
    ELSE LET mid == Len(ss) \div 2
         IN  Flatten(SubSeq(ss, 1, mid)) \o Flatten(SubSeq(ss, mid + 1, Len(ss)))

IsPrefix(p, s) == Len(p) <= Len(s) /\ SubSeq(s, 1, Len(p)) = p
IsSuffix(p, s) == Len(p) <= Len(s) /\ SubSeq(s, Len(s) - Len(p) + 1, Len(s)) = p

\* lexicographic order on sequences of integers
RECURSIVE LexLess(_, _)
LexLess(a, b) ==
    IF b = <<>> THEN FALSE
    ELSE IF a = <<>> THEN TRUE
    ELSE IF Head(a) # Head(b) THEN Head(a) < Head(b)
    ELSE LexLess(Tail(a), Tail(b))

(***************************************************************************)
(* String marshalling (Emscripten runtime, as used by the wrappers).       *)
(***************************************************************************)
\* UTF-8 encoding of one character code (one- and two-byte forms).
Utf8Char(c) == IF c < 128 THEN <<c>> ELSE <<192 + (c \div 64), 128 + (c % 64)>>

Utf8(s) == Flatten([i \in 1..Len(s) |-> Utf8Char(s[i])])

\* intArrayFromString(s): the UTF-8 bytes of s followed by a terminating 0.
intArrayFromString(s) == Utf8(s) \o <<0>>

\* What a compiled function sees behind a char*: the bytes before the first 0.
CString(bytes) ==
    LET zeros == {i \in 1..Len(bytes) : bytes[i] = 0}
    IN  IF zeros = {} THEN bytes
        ELSE SubSeq(bytes, 1, (CHOOSE i \in zeros : \A j \in zeros : i <= j) - 1)

\* UTF-8 decoding; a byte that starts no valid sequence decodes to U+FFFD.
RECURSIVE UTF8ToString(_)
UTF8ToString(b) ==
    IF b = <<>> THEN <<>>
    ELSE IF b[1] < 128 THEN <<b[1]>> \o UTF8ToString(Tail(b))
    ELSE IF b[1] >= 192 /\ b[1] < 224 /\ Len(b) >= 2 /\ b[2] >= 128 /\ b[2] < 192
         THEN <<(b[1] - 192) * 64 + (b[2] - 128)>> \o UTF8ToString(Tail(Tail(b)))
    ELSE <<65533>> \o UTF8ToString(Tail(b))

\* Pointer_stringify(ptr): the C string at ptr as a JavaScript string; bytes are
\* taken one per character unless some byte is above 127.
Pointer_stringify(bytes) ==
    LET c == CString(bytes)
    IN  IF \A i \in 1..Len(c) : c[i] < 128 THEN c ELSE UTF8ToString(c)

\* The byte the wrappers read the result count from: the low byte of the int.
HEAPU8(n) == n % ByteMod

(***************************************************************************)
(* Inputs.  A locale string is kept as its pieces, "_" being a piece, so   *)
(* that split("_") and the concatenation of a file suffix are computed.    *)
(***************************************************************************)
Locales ==
    { <<"en", "_", "US">>, <<"fr", "_", "FR">>, <<"xx", "_", "XX">>,
      <<"en", "_", "US", "_", "POSIX">> }

\* String.prototype.split("_"): the pieces between the separators.
Split(s) == SelectSeq(s, LAMBDA p : p # "_")

\* Characters of the texts: a letter, a space, an apostrophe.
TextAlphabet == {97, 32, 39}

\* Lengths whose boundary count is just below, at and above one byte's range.
LongLens == {ByteMod - 2, ByteMod - 1, ByteMod}
LongTexts == {[i \in 1..n |-> IF i % 2 = 1 THEN 97 ELSE 32] : n \in LongLens}
Texts == SeqsUpTo(TextAlphabet, MaxTextLen) \cup LongTexts

(***************************************************************************)
(* The compiled ICU functions.                                             *)
(***************************************************************************)
\* Languages the ICU data library has break rules for.
KnownLanguages == {"en", "fr"}

\* In these languages an apostrophe between two letters does not break.
ApostropheJoins(it) == it[1] = "en"

Category(c) ==
    CASE c = 97 -> "letter"
      [] c = 32 -> "space"
      [] c = 39 -> "apostrophe"
      [] OTHER  -> "punct"

\* Whether characters i and i+1 of t belong to the same run.
SameRun(it, t, i) ==
    LET a == Category(t[i])
        b == Category(t[i + 1])
    IN  \/ a = "letter" /\ b = "letter"
        \/ a = "space" /\ b = "space"
        \/ /\ ApostropheJoins(it)
           /\ a = "letter" /\ b = "apostrophe"
           /\ i + 2 <= Len(t) /\ Category(t[i + 2]) = "letter"
        \/ /\ ApostropheJoins(it)
           /\ a = "apostrophe" /\ b = "letter"
           /\ i > 1 /\ Category(t[i - 1]) = "letter"

\* The offsets ICU reports for text t: 0, every change of run, Len(t).
Boundaries(it, t) ==
    SelectSeq([k \in 1..(Len(t) + 1) |-> k - 1],
              LAMBDA o : o = 0 \/ o = Len(t) \/ ~SameRun(it, t, o))

\* Module._freeBreakIterator(): the existing BreakIterator, if any, is deleted.
Module_freeBreakIterator(it) == <<>>

\* Module._configureBreakIterator(language, locale): 1 and a new BreakIterator,
\* or 0 with the global iterator left as it is.
Module_configureBreakIterator(it, sLanguage, sLocale) ==
    IF icuData = "loaded" /\ dataDirSet /\ sLanguage \in KnownLanguages
    THEN [ret |-> 1, it |-> <<sLanguage, sLocale>>]
    ELSE [ret |-> 0, it |-> it]

\* Module._findBoundaries(text, &n): the possible outcomes.  Without a
\* BreakIterator the call dereferences a null pointer: it aborts, or it comes
\* back with nothing.
Module_findBoundaries(it, text) ==
    IF it = <<>>
    THEN { [kind |-> "abort", n |-> 0, data |-> <<>>],
           [kind |-> "ret", n |-> 0, data |-> <<>>] }
    ELSE { [kind |-> "ret", n |-> Len(Boundaries(it, text)), data |-> Boundaries(it, text)] }

NoCall == [kind |-> "none", n |-> 0, data |-> <<>>]

(***************************************************************************)
(* WordBoundaryFinder                                                      *)
(***************************************************************************)
\* initialize(): starts the asynchronous preload of the ICU data file and
\* sets the data directory.
initialize ==
    /\ runtime = "running"
    /\ icuData' = IF icuData = "none" THEN "pending" ELSE icuData
    /\ dataDirSet' = TRUE
    /\ last' = [op |-> "initialize", arg |-> <<>>, result |-> 0, threw |-> FALSE,
                before |-> <<>>, native |-> NoCall, events |-> <<>>]
    /\ UNCHANGED <<runtime, breakIterator, hunspell, stackTop, liveBuffers>>

\* The preload started by FS.createPreloadedFile completes.
preloadComplete ==
    /\ runtime = "running"
    /\ icuData = "pending"
    /\ icuData' = "loaded"
    /\ UNCHANGED <<runtime, dataDirSet, breakIterator, hunspell, stackTop, liveBuffers, last>>

configure_NoFree(sLanguageLocale) ==
    /\ runtime = "running"
    /\ LET parts == Split(sLanguageLocale)
           r == Module_configureBreakIterator(breakIterator, parts[1], parts[2])
       IN  /\ breakIterator' = r.it
           /\ last' = [op |-> "configure", arg |-> sLanguageLocale, result |-> r.ret,
                       threw |-> FALSE, before |-> breakIterator, native |-> NoCall,
                       events |-> <<"stackSave", "allocate", "allocate",
                                    "native", "stackRestore">>]
    /\ UNCHANGED <<runtime, icuData, dataDirSet, hunspell, stackTop, liveBuffers>>

configure_FreeOldAfter(sLanguageLocale) ==
    /\ runtime = "running"
    /\ LET parts == Split(sLanguageLocale)
           r == Module_configureBreakIterator(breakIterator, parts[1], parts[2])
       IN  /\ breakIterator' = IF breakIterator # <<>>
                               THEN Module_freeBreakIterator(r.it) ELSE r.it
           /\ last' = [op |-> "configure", arg |-> sLanguageLocale, result |-> r.ret,
                       threw |-> FALSE, before |-> breakIterator, native |-> NoCall,
                       events |-> <<"stackSave", "allocate", "allocate",
                                    "native", "stackRestore", "freeBreakIterator">>]
    /\ UNCHANGED <<runtime, icuData, dataDirSet, hunspell, stackTop, liveBuffers>>

\* configure(sLanguageLocale): frees the existing BreakIterator, then asks for
\* one for parts[0], parts[1]; the stack pointer is saved and restored.
configure(sLanguageLocale) ==
    /\ runtime = "running"
    /\ LET freed == Module_freeBreakIterator(breakIterator)
           parts == Split(sLanguageLocale)
           sLanguage == parts[1]
           sLocale == parts[2]
           r == Module_configureBreakIterator(freed, sLanguage, sLocale)
       IN  /\ breakIterator' = r.it
           /\ last' = [op |-> "configure", arg |-> sLanguageLocale, result |-> r.ret,
                       threw |-> FALSE, before |-> breakIterator, native |-> NoCall,
                       events |-> <<"freeBreakIterator", "stackSave", "allocate",
                                    "allocate", "native", "stackRestore">>]
    /\ UNCHANGED <<runtime, icuData, dataDirSet, hunspell, stackTop, liveBuffers>>

\* The array findBoundaries builds from a returned buffer: numBoundaries is the
\* byte read at ptrNumBoundaries, tempBoundaries the first numBoundaries ints.
CopyBoundaries(out) ==
    LET numBoundaries == HEAPU8(out.n)
        tempBoundaries == SubSeq(out.data, 1, numBoundaries)
    IN  [i \in 1..Len(tempBoundaries) |-> tempBoundaries[i]]

\* findBoundaries(sText): the text is copied to the stack, Module._findBoundaries
\* is called, the returned offsets are copied into an array, the buffer is
\* released and the stack pointer restored.
findBoundaries(sText) ==
    /\ runtime = "running"
    /\ LET stackState == stackTop
           ptrText == intArrayFromString(sText)
       IN  \E out \in Module_findBoundaries(breakIterator, CString(ptrText)) :
             IF out.kind = "abort"
             THEN \* the exception leaves the wrapper before stackRestore
                  /\ runtime' = "aborted"
                  /\ stackTop' = stackState + 2
                  /\ liveBuffers' = liveBuffers
                  /\ last' = [op |-> "findBoundaries", arg |-> sText, result |-> <<>>,
                              threw |-> TRUE, before |-> breakIterator, native |-> out,
                              events |-> <<"stackSave", "allocate", "allocate", "native">>]
             ELSE /\ runtime' = runtime
                  /\ stackTop' = stackState
                  /\ liveBuffers' = (liveBuffers + 1) - 1
                  /\ last' = [op |-> "findBoundaries", arg |-> sText,
                              result |-> CopyBoundaries(out),
                              threw |-> FALSE, before |-> breakIterator, native |-> out,
                              events |-> <<"stackSave", "allocate", "allocate", "native",
                                           "copy", "free", "stackRestore">>]
    /\ UNCHANGED <<icuData, dataDirSet, breakIterator, hunspell>>

(***************************************************************************)
(* The dictionary files in the Emscripten file system, and their content.  *)
(* Words are stored as UTF-8 bytes.                                        *)
(***************************************************************************)
AffFile(sLanguageLocale) == sLanguageLocale \o <<".aff">>
DicFile(sLanguageLocale) == sLanguageLocale \o <<".dic">>

FileSystem ==
    { AffFile(<<"en", "_", "US">>), DicFile(<<"en", "_", "US">>),
      AffFile(<<"fr", "_", "FR">>), DicFile(<<"fr", "_", "FR">>) }

\* en_US.aff: flag S appends "a".  fr_FR.aff: flag P prepends "a".
AffixRules(file) ==
    IF file = AffFile(<<"en", "_", "US">>)
    THEN {[flag |-> "S", kind |-> "suffix", strip |-> <<>>, add |-> <<97>>]}
    ELSE IF file = AffFile(<<"fr", "_", "FR">>)
    THEN {[flag |-> "P", kind |-> "prefix", strip |-> <<>>, add |-> <<97>>]}
    ELSE {}

\* en_US.dic: a/S, e-acute (questionable).  fr_FR.dic: e-acute e-acute/P.
DicEntries(file) ==
    IF file = DicFile(<<"en", "_", "US">>)
    THEN { [word |-> <<97>>, flags |-> {"S"}, questionable |-> FALSE],
           [word |-> <<195, 169>>, flags |-> {}, questionable |-> TRUE] }
    ELSE IF file = DicFile(<<"fr", "_", "FR">>)
    THEN { [word |-> <<195, 169, 195, 169>>, flags |-> {"P"}, questionable |-> FALSE] }
    ELSE {}

\* Character codes of the words given to check and suggest:
\* NUL, "A", "a", e-acute.
WordAlphabet == {0, 65, 97, 233}
Words == SeqsUpTo(WordAlphabet, MaxWordLen)

(***************************************************************************)
(* The compiled Hunspell functions.                                        *)
(***************************************************************************)
\* Module._loadDictionary(aff, dic): builds the Hunspell object from the two
\* files; 0, and the previous object kept, when a file is missing or a flag
\* names no rule.
Module_loadDictionary(h, aff, dic) ==
    IF /\ aff \in FileSystem
       /\ dic \in FileSystem
       /\ \A e \in DicEntries(dic) : \A f \in e.flags : \E r \in AffixRules(aff) : r.flag = f
    THEN [ret |-> 1, h |-> <<aff, dic>>]
    ELSE [ret |-> 0, h |-> h]

IsUpper(b) == b = 65
Lower(w) == [i \in 1..Len(w) |-> IF IsUpper(w[i]) THEN w[i] + 32 ELSE w[i]]

\* The forms looked up for w: w itself, then its lower-case form when w is
\* capitalised or all upper case.
CaseForms(w) ==
    IF /\ Len(w) > 0
       /\ IsUpper(w[1])
       /\ \/ \A i \in 2..Len(w) : ~IsUpper(w[i])
          \/ \A i \in 2..Len(w) : IsUpper(w[i]) \/ w[i] >= 128
    THEN <<w, Lower(w)>>
    ELSE <<w>>

\* The word a rule makes of a stem, or <<0>> where the rule does not apply.
ApplyRule(r, stem) ==
    IF r.kind = "suffix"
    THEN IF IsSuffix(r.strip, stem)
         THEN SubSeq(stem, 1, Len(stem) - Len(r.strip)) \o r.add ELSE <<0>>
    ELSE IF IsPrefix(r.strip, stem)
         THEN r.add \o SubSeq(stem, Len(r.strip) + 1, Len(stem)) ELSE <<0>>

\* The entries form derives from: directly, by one rule, or by one prefix and
\* one suffix.
BasesOf(h, form) ==
    LET rules == AffixRules(h[1])
        entries == DicEntries(h[2])
    IN  { e \in entries :
            \/ \E r \in rules : r.flag \in e.flags /\ ApplyRule(r, e.word) = form
            \/ \E p \in rules : \E q \in rules :
                 /\ p.kind = "prefix" /\ q.kind = "suffix"
                 /\ p.flag \in e.flags /\ q.flag \in e.flags
                 /\ ApplyRule(p, ApplyRule(q, e.word)) = form }

\* 0 / 1 / 2 for one form.
SpellForm(h, form) ==
    LET direct == {e \in DicEntries(h[2]) : e.word = form}
        bases == BasesOf(h, form)
    IN  IF direct # {}
        THEN IF \E e \in direct : e.questionable THEN 2 ELSE 1
        ELSE IF bases # {}
        THEN IF \A e \in bases : e.questionable THEN 2 ELSE 1
        ELSE 0

\* Hunspell::spell on the bytes of a word.
Spell(h, w) ==
    LET forms == CaseForms(w)
    IN  IF SpellForm(h, forms[1]) # 0 THEN SpellForm(h, forms[1])
        ELSE IF Len(forms) > 1 THEN SpellForm(h, forms[2])
        ELSE 0

\* Module._check(word): the possible outcomes; without a Hunspell object the
\* call dereferences a null pointer.
Module_check(h, word) ==
    IF h = <<>>
    THEN { [kind |-> "abort", n |-> 0, data |-> <<>>],
           [kind |-> "ret", n |-> 0, data |-> <<>>] }
    ELSE { [kind |-> "ret", n |-> Spell(h, word), data |-> <<>>] }

(***************************************************************************)
(* Suggestions.                                                            *)
(***************************************************************************)
MaxSuggestions == 15

\* The characters the loaded dictionary is written in.
DictAlphabet(h) ==
    UNION ({ {UTF8ToString(e.word)[i] : i \in 1..Len(UTF8ToString(e.word))} :
               e \in DicEntries(h[2]) }
           \cup { {UTF8ToString(r.add)[i] : i \in 1..Len(UTF8ToString(r.add))} :
               r \in AffixRules(h[1]) })

Remove(w, i) == SubSeq(w, 1, i - 1) \o SubSeq(w, i + 1, Len(w))
Insert(w, i, b) == SubSeq(w, 1, i) \o <<b>> \o SubSeq(w, i + 1, Len(w))

\* The strings at one edit from the characters cs: a deletion, an insertion,
\* a substitution, a transposition of neighbours.
Edits(alphabet, cs) ==
    {Remove(cs, i) : i \in 1..Len(cs)}
    \cup {Insert(cs, i, b) : i \in 0..Len(cs), b \in alphabet}
    \cup {[cs EXCEPT ![i] = b] : i \in 1..Len(cs), b \in alphabet}
    \cup {[cs EXCEPT ![i] = cs[i + 1], ![i + 1] = cs[i]] : i \in 1..(Len(cs) - 1)}

\* w split in two words that are both in the dictionary.
Splits(h, w) ==
    { SubSeq(w, 1, i) \o <<32>> \o SubSeq(w, i + 1, Len(w)) : i \in
        { j \in 1..(Len(w) - 1) :
            Spell(h, SubSeq(w, 1, j)) # 0 /\ Spell(h, SubSeq(w, j + 1, Len(w))) # 0 } }

CaseVariants(w) == {Lower(w)}

\* The candidates in order: by rank, then by their bytes.
RECURSIVE Ranked(_, _)
Ranked(cs, rank) ==
    IF cs = {} THEN <<>>
    ELSE LET first == CHOOSE c \in cs : \A d \in cs \ {c} :
                         \/ rank[c] < rank[d]
                         \/ rank[c] = rank[d] /\ LexLess(c, d)
         IN  <<first>> \o Ranked(cs \ {first}, rank)

\* Hunspell::suggest on the bytes of a word: the candidates that are words of
\* the dictionary, case variants first, then edits, then splits, at most
\* MaxSuggestions of them.
Suggestions(h, w) ==
    LET variants == CaseVariants(w)
        edits == {Utf8(c) : c \in Edits(DictAlphabet(h), UTF8ToString(w))}
        splits == Splits(h, w)
        rank == [c \in variants \cup edits \cup splits |->
                    IF c \in variants THEN 0 ELSE IF c \in edits THEN 1 ELSE 2]
        valid == {c \in DOMAIN rank : c # w /\ Spell(h, c) # 0}
        all == Ranked(valid, rank)
    IN  SubSeq(all, 1, IF Len(all) < MaxSuggestions THEN Len(all) ELSE MaxSuggestions)

\* Module._getSuggestions(word, &n): the possible outcomes: a list of n C
\* strings; without a Hunspell object the call dereferences a null pointer.
Module_getSuggestions(h, word) ==
    IF h = <<>>
    THEN { [kind |-> "abort", n |-> 0, data |-> <<>>],
           [kind |-> "ret", n |-> 0, data |-> <<>>] }
    ELSE LET list == Suggestions(h, word)
         IN  { [kind |-> "ret", n |-> Len(list),
                data |-> [i \in 1..Len(list) |-> list[i] \o <<0>>]] }

(***************************************************************************)
(* Spellchecker                                                            *)
(***************************************************************************)
loadDictionary_SameFile(sLanguageLocale) ==
    /\ runtime = "running"
    /\ LET sAffixFile == AffFile(sLanguageLocale)
           r == Module_loadDictionary(hunspell, sAffixFile, sAffixFile)
       IN  /\ hunspell' = r.h
           /\ last' = [op |-> "loadDictionary", arg |-> sLanguageLocale, result |-> r.ret,
                       threw |-> FALSE, before |-> hunspell, native |-> NoCall,
                       events |-> <<"stackSave", "allocate", "allocate", "native",
                                    "stackRestore">>]
    /\ UNCHANGED <<runtime, icuData, dataDirSet, breakIterator, stackTop, liveBuffers>>

\* loadDictionary(sLanguageLocale): passes <locale>.aff and <locale>.dic to the
\* compiled constructor wrapper and returns its value.
loadDictionary(sLanguageLocale) ==
    /\ runtime = "running"
    /\ LET sAffixFile == AffFile(sLanguageLocale)
           sDictionaryFile == DicFile(sLanguageLocale)
           r == Module_loadDictionary(hunspell, sAffixFile, sDictionaryFile)
       IN  /\ hunspell' = r.h
           /\ last' = [op |-> "loadDictionary", arg |-> sLanguageLocale, result |-> r.ret,
                       threw |-> FALSE, before |-> hunspell, native |-> NoCall,
                       events |-> <<"stackSave", "allocate", "allocate", "native",
                                    "stackRestore">>]
    /\ UNCHANGED <<runtime, icuData, dataDirSet, breakIterator, stackTop, liveBuffers>>

check_Boolean(sWord) ==
    /\ runtime = "running"
    /\ \E out \in Module_check(hunspell, CString(intArrayFromString(sWord))) :
          /\ out.kind = "ret"
          /\ last' = [op |-> "check", arg |-> sWord,
                      result |-> IF out.n # 0 THEN 1 ELSE 0,
                      threw |-> FALSE, before |-> hunspell, native |-> out,
                      events |-> <<"stackSave", "allocate", "native", "stackRestore">>]
    /\ UNCHANGED <<runtime, icuData, dataDirSet, breakIterator, hunspell, stackTop, liveBuffers>>

\* check(sWord): the word is copied to the stack as a C string, Module._check
\* is called on it and its value returned.
check(sWord) ==
    /\ runtime = "running"
    /\ LET stackState == stackTop
           ptrWord == intArrayFromString(sWord)
       IN  \E out \in Module_check(hunspell, CString(ptrWord)) :
             IF out.kind = "abort"
             THEN /\ runtime' = "aborted"
                  /\ stackTop' = stackState + 1
                  /\ last' = [op |-> "check", arg |-> sWord, result |-> 0,
                              threw |-> TRUE, before |-> hunspell, native |-> out,
                              events |-> <<"stackSave", "allocate", "native">>]
             ELSE /\ runtime' = runtime
                  /\ stackTop' = stackState
                  /\ last' = [op |-> "check", arg |-> sWord, result |-> out.n,
                              threw |-> FALSE, before |-> hunspell, native |-> out,
                              events |-> <<"stackSave", "allocate", "native",
                                           "stackRestore">>]
    /\ UNCHANGED <<icuData, dataDirSet, breakIterator, hunspell, liveBuffers>>

\* The array suggest builds from a returned list: numSuggestions is the byte
\* read at ptrNumSuggestions; null pointers are skipped.
CopySuggestions(out) ==
    LET numSuggestions == HEAPU8(out.n)
        suggestionPointers == SubSeq(out.data, 1, numSuggestions)
        kept == SelectSeq(suggestionPointers, LAMBDA ptr : ptr # <<>>)
    IN  [i \in 1..Len(kept) |-> Pointer_stringify(kept[i])]

suggest_NoUtf8(sWord) ==
    /\ runtime = "running"
    /\ \E out \in Module_getSuggestions(hunspell, CString(intArrayFromString(sWord))) :
          /\ out.kind = "ret"
          /\ last' = [op |-> "suggest", arg |-> sWord,
                      result |-> [i \in 1..HEAPU8(out.n) |-> CString(out.data[i])],
                      threw |-> FALSE, before |-> hunspell, native |-> out,
                      events |-> <<"stackSave", "allocate", "allocate", "native",
                                   "copy", "free", "stackRestore">>]
    /\ UNCHANGED <<runtime, icuData, dataDirSet, breakIterator, hunspell, stackTop, liveBuffers>>

suggest_SkipCorrect(sWord) ==
    /\ runtime = "running"
    /\ \E out \in Module_getSuggestions(hunspell, CString(intArrayFromString(sWord))) :
          /\ out.kind = "ret"
          /\ last' = [op |-> "suggest", arg |-> sWord,
                      result |-> IF /\ hunspell # <<>>
                                    /\ Spell(hunspell, CString(intArrayFromString(sWord))) # 0
                                 THEN <<>> ELSE CopySuggestions(out),
                      threw |-> FALSE, before |-> hunspell, native |-> out,
                      events |-> <<"stackSave", "allocate", "allocate", "native",
                                   "copy", "free", "stackRestore">>]
    /\ UNCHANGED <<runtime, icuData, dataDirSet, breakIterator, hunspell, stackTop, liveBuffers>>

\* suggest(sWord): the word is copied to the stack, Module._getSuggestions is
\* called, the strings of the returned list are copied into an array, the list
\* is released and the stack pointer restored.
suggest(sWord) ==
    /\ runtime = "running"
    /\ LET stackState == stackTop
           ptrWord == intArrayFromString(sWord)
       IN  \E out \in Module_getSuggestions(hunspell, CString(ptrWord)) :
             IF out.kind = "abort"
             THEN /\ runtime' = "aborted"
                  /\ stackTop' = stackState + 2
                  /\ liveBuffers' = liveBuffers
                  /\ last' = [op |-> "suggest", arg |-> sWord, result |-> <<>>,
                              threw |-> TRUE, before |-> hunspell, native |-> out,
                              events |-> <<"stackSave", "allocate", "allocate", "native">>]
             ELSE /\ runtime' = runtime
                  /\ stackTop' = stackState
                  /\ liveBuffers' = (liveBuffers + 1) - 1
                  /\ last' = [op |-> "suggest", arg |-> sWord,
                              result |-> CopySuggestions(out),
                              threw |-> FALSE, before |-> hunspell, native |-> out,
                              events |-> <<"stackSave", "allocate", "allocate", "native",
                                           "copy", "free", "stackRestore">>]
    /\ UNCHANGED <<icuData, dataDirSet, breakIterator, hunspell>>

(***************************************************************************)
(* The state machine.                                                      *)
(***************************************************************************)
Init ==
    /\ runtime = "running"
    /\ icuData = "none"
    /\ dataDirSet = FALSE
    /\ breakIterator = <<>>
    /\ hunspell = <<>>
    /\ stackTop = 0
    /\ liveBuffers = 0
    /\ last = [op |-> "none", arg |-> <<>>, result |-> 0, threw |-> FALSE,
               before |-> <<>>, native |-> NoCall, events |-> <<>>]

Next ==
    \/ initialize
    \/ preloadComplete
    \/ \E l \in Locales : configure(l)
    \/ \E t \in Texts : findBoundaries(t)
    \/ \E l \in Locales : loadDictionary(l)
    \/ \E w \in Words : check(w)
    \/ \E w \in Words : suggest(w)

Spec == Init /\ [][Next]_vars

(***************************************************************************)
(* Properties.                                                             *)
(***************************************************************************)
\* What each wrapper hands to the compiled function for a JavaScript string.
Marshal(s) == CString(intArrayFromString(s))

IteratorFor(sLanguageLocale) == <<Split(sLanguageLocale)[1], Split(sLanguageLocale)[2]>>

StrictlyIncreasing(q) == \A i \in 1..(Len(q) - 1) : q[i] < q[i + 1]

Count(q, x) == Cardinality({i \in 1..Len(q) : q[i] = x})
Index(q, x) == CHOOSE i \in 1..Len(q) : q[i] = x

C2_UnconfiguredCallIsRejected ==
    (last.op \in {"check", "suggest", "findBoundaries"} /\ last.before = <<>>)
        => /\ last.native.kind = "none"
           /\ ~last.threw
           /\ runtime = "running"
           /\ stackTop = 0

\* C3 as stated: after a successful configure, findBoundaries of a non-empty
\* text returns a strictly increasing sequence from 0 to the length of the text.
C3_BoundariesSpanText ==
    (last.op = "findBoundaries" /\ last.before # <<>> /\ Len(last.arg) > 0)
        => /\ last.result # <<>>
           /\ last.result[1] = 0
           /\ last.result[Len(last.result)] = Len(last.arg)
           /\ StrictlyIncreasing(last.result)

\* C4: with a dictionary loaded, check returns 0, 1 or 2, and for a word that
\* is an entry of the dictionary it returns 2 when the entry is marked
\* questionable and 1 otherwise.
C4_VerbatimWordsAccepted ==
    (last.op = "check" /\ last.before # <<>>)
        => /\ last.result \in {0, 1, 2}
           /\ \A e \in DicEntries(last.before[2]) :
                e.word = Utf8(last.arg)
                    => last.result = (IF e.questionable THEN 2 ELSE 1)

C4_Witness ==
    /\ last.op = "check" /\ last.before # <<>>
    /\ \E e \in DicEntries(last.before[2]) : e.word = Utf8(last.arg) /\ e.questionable
    /\ last.result = 2

\* C5: with a dictionary loaded, every string suggest returns is accepted by
\* check on the same dictionary.
C5_SuggestionsPassCheck ==
    (last.op = "suggest" /\ last.before # <<>>)
        => \A i \in 1..Len(last.result) :
              \A out \in Module_check(last.before, Marshal(last.result[i])) :
                  out.kind = "ret" /\ out.n # 0

C5_Witness ==
    /\ last.op = "suggest" /\ last.before # <<>>
    /\ \E i \in 1..Len(last.result) : \E j \in 1..Len(last.result[i]) :
          last.result[i][j] >= 128

\* C6: the Hunspell object is absent or built from the affix file and the word
\* file of one and the same locale, and after a loadDictionary that succeeded
\* it is the one of the locale just given, nothing of the previous one kept.
C6_OneWholeDictionary ==
    /\ hunspell = <<>> \/ \E l \in Locales : hunspell = <<AffFile(l), DicFile(l)>>
    /\ (last.op = "loadDictionary" /\ last.result # 0)
          => /\ hunspell = <<AffFile(last.arg), DicFile(last.arg)>>
             /\ \A w \in Words :
                  Module_check(hunspell, Marshal(w))
                      = {[kind |-> "ret", data |-> <<>>,
                          n |-> Spell(<<AffFile(last.arg), DicFile(last.arg)>>, Marshal(w))]}

C6_Witness ==
    /\ last.op = "loadDictionary" /\ last.result # 0
    /\ last.before # <<>>
    /\ last.before # hunspell

\* C7: configure(L) called while the break iterator of L is active succeeds
\* and leaves the break iterator of L active, so that findBoundaries gives for
\* every text what it gave after the first configure(L).
C7_ConfigureIdempotent ==
    (last.op = "configure" /\ last.before # <<>> /\ last.before = IteratorFor(last.arg))
        => /\ last.result = 1
           /\ breakIterator = last.before
           /\ \A t \in Texts :
                Module_findBoundaries(breakIterator, Marshal(t))
                    = Module_findBoundaries(last.before, Marshal(t))

C7_Witness ==
    /\ last.op = "configure" /\ last.result = 1
    /\ last.before # <<>>
    /\ last.before = IteratorFor(last.arg)

\* C8: with a dictionary loaded, suggest on a word that check accepts returns,
\* without an error, the suggestions the engine generates for it, an empty
\* array when there are none.
C8_SuggestIgnoresCheck ==
    (last.op = "suggest" /\ last.before # <<>> /\ Spell(last.before, Marshal(last.arg)) # 0)
        => LET list == Suggestions(last.before, Marshal(last.arg))
           IN  /\ ~last.threw
               /\ Len(last.result) = Len(list)
               /\ \A i \in 1..Len(list) : Utf8(last.result[i]) = list[i]

C8_Witness ==
    /\ last.op = "suggest" /\ last.before # <<>>
    /\ Spell(last.before, Marshal(last.arg)) # 0
    /\ last.result # <<>>

\* C9 as stated: findBoundaries returns every offset the compiled function
\* reported, in the same order, whatever their number.
C9_AllBoundariesReturned ==
    (last.op = "findBoundaries" /\ last.native.kind = "ret")
        => /\ Len(last.result) = last.native.n
           /\ \A i \in 1..last.native.n : last.result[i] = last.native.data[i]

\* C10 as stated: no result buffer of a compiled call is left unreleased, and
\* a suggest or findBoundaries call whose compiled function returned has
\* released the buffer exactly once, after every element of the result has
\* been copied into the returned array and before restoring the stack pointer.
C10_BufferReleasedAfterFullCopy ==
    /\ liveBuffers = 0
    /\ (last.op \in {"suggest", "findBoundaries"} /\ last.native.kind = "ret")
          => /\ Count(last.events, "native") = 1
             /\ Count(last.events, "free") = 1
             /\ Count(last.events, "stackRestore") = 1
             /\ Index(last.events, "native") < Index(last.events, "copy")
             /\ Index(last.events, "copy") < Index(last.events, "free")
             /\ Index(last.events, "free") < Index(last.events, "stackRestore")
             /\ Len(last.result) = last.native.n

====
